---- MODULE Spec2Model ----
(***************************************************************************)
(* The get-ip Lambda of the tutorial and the network it is deployed in.    *)
(*                                                                         *)
(* amplify/backend.ts builds a VPC whose NAT gateways carry the Elastic    *)
(* IPs named in EIP_ALLOCATION_IDS and places the function in the          *)
(* private-with-egress subnets.  amplify/functions/get-ip/handler.ts       *)
(* fetches https://api.ipify.org?format=json once and always answers 200   *)
(* with JSON.stringify of what it got: the parsed body, the status text of *)
(* a non-2xx response, the message of a thrown Error, or the default       *)
(* string.                                                                 *)
(***************************************************************************)
EXTENDS Integers, Sequences, FiniteSets, TLC

VARIABLES
    env,               \* process.env.EIP_ALLOCATION_IDS, a sequence of characters
    deployed,          \* the backend has been synthesized and deployed
    eipAllocationIds,  \* backend.ts: const eipAllocationIds
    pc,                \* position of the handler invocation
    subnet,            \* subnet the invocation's network interface is in
    upstream,          \* what the third party does on the 1st, 2nd, ... call
    attempts,          \* number of fetch() calls this invocation has made
    sources,           \* source address the third party saw on each call
    response,          \* handler.ts: const response
    json,              \* handler.ts: let json
    result,            \* what the handler returned
    fpc,               \* position of the page's call of getIP()
    got,               \* actions.ts: what getIP() resolved to
    ip                 \* page.tsx: const [ip, setIP] = useState('')

backend == <<env, deployed, eipAllocationIds, pc, subnet, upstream, attempts,
             sources, response, json, result>>

frontend == <<fpc, got, ip>>

vars == <<backend, frontend>>

-----------------------------------------------------------------------------
(* Bounds *)

MaxEnvLen == 3      \* longest EIP_ALLOCATION_IDS value explored
ScriptLen == 3      \* number of successive upstream calls scripted

(* README: "left the number of availability zones (AZ) unspecified, which   *)
(* defaults to 2"                                                          *)
NumAZs == 2

(* spec.md 4.2: "retries up to 2 additional times" *)
Retries == 2

-----------------------------------------------------------------------------
(* Elastic IPs *)

EnvChars == {"x", "y", ","}

\* The allocations the account holds (README step 5: "We'll need two, one
\* for each availability zone. Note their Allocation IDs.")
Allocated == {<<"x">>, <<"y">>}

\* "(Obviously, also note their assigned IP addresses.)"
EipAddress(id) ==
    IF id = <<"x">> THEN "198.51.100.1"
    ELSE IF id = <<"y">> THEN "198.51.100.2"
    ELSE "none"

\* Address of the EIP a NAT gateway gets when none is given to it.
AutoEip(az) == IF az = 1 THEN "auto-eip-1" ELSE "auto-eip-other"

NoAddress == "none"

RECURSIVE SplitComma(_)
\* String.prototype.split(','): the pieces between the commas, empty pieces
\* included; a string without a comma is one piece.
SplitComma(s) ==
    IF \E i \in 1..Len(s) : s[i] = ","
    THEN LET i == CHOOSE k \in 1..Len(s) :
                      s[k] = "," /\ \A j \in 1..(k-1) : s[j] # ","
         IN  <<SubSeq(s, 1, i-1)>> \o SplitComma(SubSeq(s, i+1, Len(s)))
    ELSE <<s>>

-----------------------------------------------------------------------------
(* The VPC of backend.ts *)

AZs == 1..NumAZs

SubnetTypes == {"PRIVATE_ISOLATED", "PRIVATE_WITH_EGRESS", "PUBLIC"}

\* subnetConfiguration: one subnet of each of the three types in each AZ.
Subnets == [az : AZs, subnetType : SubnetTypes]

\* A VPC built without natGatewayProvider: every NAT gateway gets an EIP
\* provisioned for it.
NatGatewayAutoEip(az) == AutoEip(az)

\* natGatewayProvider: NatProvider.gateway({ eipAllocationIds }): the NAT
\* gateway of the i-th public subnet carries the i-th allocation.
NatGatewayEip(az) == EipAddress(eipAllocationIds[az])

\* vpcSubnets: { subnetType: SubnetType.PRIVATE_WITH_EGRESS }
LambdaSubnets == {s \in Subnets : s.subnetType = "PRIVATE_WITH_EGRESS"}

\* The address an outbound call from subnet s is seen to come from: a
\* private-with-egress subnet routes through the NAT gateway of its AZ; the
\* function has no public address, so from the other subnets nothing leaves.
SourceAddress(s) ==
    IF s.subnetType = "PRIVATE_WITH_EGRESS" THEN NatGatewayEip(s.az)
                                            ELSE NoAddress

\* The deployment goes through when every NAT gateway gets an allocation of
\* its own that the account holds.
Deployable(ids) ==
    /\ Len(ids) >= NumAZs
    /\ \A i \in AZs : ids[i] \in Allocated
    /\ \A i, j \in AZs : i # j => ids[i] # ids[j]

-----------------------------------------------------------------------------
(* JSON *)

Str(s) == [type |-> "string", val |-> s]
IpObject(addr) == [type |-> "object", val |-> addr]     \* { ip: <address> }

\* JSON.stringify, as a sequence of tokens.
JSONstringify(v) ==
    IF v.type = "string"
    THEN <<"\"", v.val, "\"">>
    ELSE <<"{", "\"", "ip", "\"", ":", "\"", v.val, "\"", "}">>

\* A lenient parse that wraps a text it cannot parse as a string.
JSONparseLenient(text) ==
    IF Len(text) = 3 /\ text[1] = "\"" /\ text[3] = "\""
    THEN [ok |-> TRUE, value |-> Str(text[2])]
    ELSE IF /\ Len(text) = 9
            /\ SubSeq(text, 1, 6) = <<"{", "\"", "ip", "\"", ":", "\"">>
            /\ SubSeq(text, 8, 9) = <<"\"", "}">>
    THEN [ok |-> TRUE, value |-> IpObject(text[7])]
    ELSE [ok |-> TRUE, value |-> Str(text[1])]

\* response.json(): the parsed value, or a SyntaxError.
JSONparse(text) ==
    IF Len(text) = 3 /\ text[1] = "\"" /\ text[3] = "\""
    THEN [ok |-> TRUE, value |-> Str(text[2])]
    ELSE IF /\ Len(text) = 9
            /\ SubSeq(text, 1, 6) = <<"{", "\"", "ip", "\"", ":", "\"">>
            /\ SubSeq(text, 8, 9) = <<"\"", "}">>
    THEN [ok |-> TRUE, value |-> IpObject(text[7])]
    ELSE [ok |-> FALSE, value |-> Str("")]

-----------------------------------------------------------------------------
(* The third party, https://api.ipify.org?format=json *)

OutcomeKinds == {"ok", "malformed", "http503", "reset", "timeout", "nonError"}

Scripts == [1..ScriptLen -> OutcomeKinds]

\* The body ipify sends: {"ip":"<the address the call came from>"}
IpifyBody(addr) == <<"{", "\"", "ip", "\"", ":", "\"", addr, "\"", "}">>

NoResponse == [status |-> 0, statusText |-> "", text |-> <<>>]

\* What fetch() resolves with.
FetchResponse(kind, addr) ==
    IF kind = "ok"
    THEN [status |-> 200, statusText |-> "OK", text |-> IpifyBody(addr)]
    ELSE IF kind = "malformed"
    THEN [status |-> 200, statusText |-> "OK", text |-> <<"<html>">>]
    ELSE [status |-> 503, statusText |-> "Service Unavailable",
          text |-> IpifyBody(addr)]

\* What fetch() rejects with.
FetchError(kind) ==
    IF kind = "reset"
    THEN [isError |-> TRUE, message |-> "read ECONNRESET"]
    ELSE IF kind = "timeout"
    THEN [isError |-> TRUE, message |-> "fetch failed"]
    ELSE [isError |-> FALSE, message |-> ""]

Rejects(kind) == kind \in {"reset", "timeout", "nonError"}

SyntaxError == [isError |-> TRUE, message |-> "Unexpected token"]

-----------------------------------------------------------------------------
(* handler.ts *)

FailString == "Fail to fetch IP address"

NoResult == [statusCode |-> 0, headers |-> [ContentType |-> ""], body |-> <<>>]

\* response.ok
ResponseOk(r) == r.status \in 200..299

\* An else branch that forwards the body of the failed response.
NotOkJsonBody(r) == JSONparse(r.text).value

\* An else branch that leaves json as it was initialised.
NotOkJsonDefault(r) == Str(FailString)

\* else { json = response.statusText }
NotOkJson(r) == Str(r.statusText)

\* json = await response.json()
OkJson(value) == value

\* A catch block that rethrows what is not an Error.
CatchRethrow(error, j) ==
    IF error.isError THEN [pc |-> "return", json |-> Str(error.message)]
                     ELSE [pc |-> "threw", json |-> j]

\* A catch block that swallows the error and keeps the default string.
CatchKeepDefault(error, j) == [pc |-> "return", json |-> j]

\* A catch block that goes back to the fetch.
CatchRetry(error, j) ==
    [pc |-> "fetch",
     json |-> IF error.isError THEN Str(error.message) ELSE j]

\* catch (error) { if (error instanceof Error) { json = error.message } }
Catch(error, j) ==
    [pc |-> "return",
     json |-> IF error.isError THEN Str(error.message) ELSE j]

\* A return that answers 502 when it has no data.
HandlerReturn502(j) ==
    [statusCode |-> IF j.type = "string" THEN 502 ELSE 200,
     headers |-> [ContentType |-> "application/json"],
     body |-> JSONstringify(j)]

\* return { statusCode: 200, headers: {...}, body: JSON.stringify(json) }
HandlerReturn(j) ==
    [statusCode |-> 200,
     headers |-> [ContentType |-> "application/json"],
     body |-> JSONstringify(j)]

-----------------------------------------------------------------------------
(* app/page.tsx and app/actions.ts *)

\* What getIP() resolves to when its catch block ran: no return statement.
Undefined == [type |-> "undefined", val |-> ""]

\* The left operand of json && ...: undefined and '' are falsy.
Truthy(v) == v.type = "object" \/ (v.type = "string" /\ v.val # "")

\* json.ip: the ip of an { ip } object; a string has no property ip.
PropIp(v) == IF v.type = "object" THEN Str(v.val) ELSE Undefined

\* json => json && setIP(json.ip): the ip state after the callback.
ThenCallback(v, cur) == IF Truthy(v) THEN PropIp(v) ELSE cur

-----------------------------------------------------------------------------
(* State machine *)

EnvValues == UNION {[1..n -> EnvChars] : n \in 0..MaxEnvLen}

Init ==
    /\ env \in EnvValues
    /\ deployed = FALSE
    /\ eipAllocationIds = <<>>
    /\ pc = "idle"
    /\ subnet = [az |-> 1, subnetType |-> "PRIVATE_WITH_EGRESS"]
    /\ upstream = [i \in 1..ScriptLen |-> "ok"]
    /\ attempts = 0
    /\ sources = <<>>
    /\ response = NoResponse
    /\ json = Str(FailString)
    /\ result = NoResult
    /\ fpc = "mounted"
    /\ got = Undefined
    /\ ip = Str("")

\* npx ampx sandbox: backend.ts runs and the stack is created.
Deploy ==
    /\ ~deployed
    /\ Deployable(SplitComma(env))
    /\ eipAllocationIds' = SplitComma(env)
    /\ deployed' = TRUE
    /\ UNCHANGED <<env, pc, subnet, upstream, attempts, sources, response,
                   json, result>>
    /\ UNCHANGED frontend

\* The API gateway invokes the handler: let json = 'Fail to fetch IP address'
Invoke ==
    /\ deployed
    /\ pc = "idle"
    /\ \E s \in LambdaSubnets : subnet' = s
    /\ \E u \in Scripts : upstream' = u
    /\ attempts' = 0
    /\ sources' = <<>>
    /\ response' = NoResponse
    /\ json' = Str(FailString)
    /\ result' = NoResult
    /\ pc' = "fetch"
    /\ UNCHANGED <<env, deployed, eipAllocationIds>>
    /\ UNCHANGED frontend

\* const response = await fetch(...); if (response.ok) ... else ...
Fetch ==
    /\ pc = "fetch"
    /\ attempts < ScriptLen
    /\ attempts' = attempts + 1
    /\ LET kind == upstream[attempts + 1]
           addr == SourceAddress(subnet)
       IN  /\ sources' = Append(sources, addr)
           /\ IF addr = NoAddress \/ Rejects(kind)
              THEN LET c == Catch(IF addr = NoAddress THEN FetchError("timeout")
                                                      ELSE FetchError(kind), json)
                   IN  /\ pc' = c.pc
                       /\ json' = c.json
                       /\ response' = response
              ELSE LET r == FetchResponse(kind, addr)
                   IN  /\ response' = r
                       /\ IF ResponseOk(r)
                          THEN pc' = "body" /\ json' = json
                          ELSE pc' = "return" /\ json' = NotOkJson(r)
    /\ UNCHANGED <<env, deployed, eipAllocationIds, subnet, upstream, result>>
    /\ UNCHANGED frontend

\* json = await response.json()
ReadBody ==
    /\ pc = "body"
    /\ LET p == JSONparse(response.text)
       IN  IF p.ok
           THEN pc' = "return" /\ json' = OkJson(p.value)
           ELSE LET c == Catch(SyntaxError, json)
                IN  pc' = c.pc /\ json' = c.json
    /\ UNCHANGED <<env, deployed, eipAllocationIds, subnet, upstream, attempts,
                   sources, response, result>>
    /\ UNCHANGED frontend

\* return { statusCode: 200, ... }
Return ==
    /\ pc = "return"
    /\ result' = HandlerReturn(json)
    /\ pc' = "done"
    /\ UNCHANGED <<env, deployed, eipAllocationIds, subnet, upstream, attempts,
                   sources, response, json>>
    /\ UNCHANGED frontend

\* useEffect(() => { getIP()... }, []): the effect calls the server action,
\* which issues the GET; in development React runs the effect of a mounted
\* page again with its state kept.
UseEffect ==
    /\ fpc \in {"mounted", "settled"}
    /\ fpc' = "calling"
    /\ UNCHANGED <<got, ip>>
    /\ UNCHANGED backend

\* const json = await response.body.json(); return json
GetIPReturn ==
    /\ fpc = "calling"
    /\ pc = "done"
    /\ JSONparse(result.body).ok
    /\ got' = JSONparse(result.body).value
    /\ fpc' = "resolved"
    /\ UNCHANGED ip
    /\ UNCHANGED backend

\* catch (error) { console.log('GET call failed: ', error) }
GetIPCatch ==
    /\ fpc = "calling"
    /\ got' = Undefined
    /\ fpc' = "resolved"
    /\ UNCHANGED ip
    /\ UNCHANGED backend

\* .then(json => json && setIP(json.ip))
Then ==
    /\ fpc = "resolved"
    /\ ip' = ThenCallback(got, ip)
    /\ fpc' = "settled"
    /\ UNCHANGED got
    /\ UNCHANGED backend

Next ==
    \/ Deploy \/ Invoke \/ Fetch \/ ReadBody \/ Return
    \/ UseEffect \/ GetIPReturn \/ GetIPCatch \/ Then

Spec == Init /\ [][Next]_vars

\* The event loop runs every continuation whose promise has settled.
FairSpec == Spec /\ WF_vars(Fetch) /\ WF_vars(ReadBody) /\ WF_vars(Return)

TypeOK ==
    /\ deployed \in BOOLEAN
    /\ pc \in {"idle", "fetch", "body", "return", "done", "threw"}
    /\ subnet \in Subnets
    /\ attempts \in 0..ScriptLen

-----------------------------------------------------------------------------
(* Properties *)

Range(f) == {f[i] : i \in DOMAIN f}

\* The addresses of the Elastic IPs listed in EIP_ALLOCATION_IDS.
AllocatedAddresses == {EipAddress(id) : id \in Range(SplitComma(env)) \cap Allocated}

StringBody(s) == <<"\"", s, "\"">>

IsStringShape(body) == Len(body) = 3 /\ body[1] = "\"" /\ body[3] = "\""
IsObjectShape(body) == Len(body) = 9 /\ body[1] = "{" /\ body[9] = "}"

\* The upstream call succeeds: 2xx with the JSON body of ipify.
Succeeded == upstream[1] = "ok"

Transient(kind) == kind \in {"http503", "reset", "timeout"}

AlwaysTimesOut == \A i \in 1..ScriptLen : upstream[i] = "timeout"

Scenario3 ==
    upstream[1] = "http503" /\ upstream[2] = "http503" /\ upstream[3] = "ok"

\* C1: whatever the upstream call did (2xx with JSON body, non-2xx status,
\* network error, timeout, malformed body, thrown non-Error value), the
\* response the handler returns has status code 200 and Content-Type
\* application/json; no response with another status is ever produced.
C1_Always200 ==
    /\ pc = "done" =>
          /\ result.statusCode = 200
          /\ result.headers.ContentType = "application/json"
    /\ result # NoResult => result.statusCode = 200

C1_Witness ==
    /\ pc = "done"
    /\ upstream[1] = "nonError"
    /\ result.statusCode = 200

\* C2: no fault of the outbound call gets past the try/catch: the handler
\* is never left by an uncaught error, and every invocation that started
\* its fetch ends with a returned result.
C2_AlwaysReturns ==
    /\ [](pc # "threw")
    /\ (pc = "fetch") ~> (pc = "done" /\ result # NoResult)

C2_Witness ==
    /\ pc = "done"
    /\ upstream[1] = "malformed"
    /\ result # NoResult

\* C3: the body has one of two shapes: on success it is the JSON encoding of
\* the upstream object {"ip": <address>}, unchanged; on every failure it is
\* the JSON encoding of a bare string.  A failure never produces an object
\* and a success never produces a bare string.
C3_TwoShapes ==
    pc = "done" =>
        IF Succeeded
        THEN /\ result.body = response.text
             /\ result.body = IpifyBody(sources[1])
             /\ IsObjectShape(result.body)
             /\ ~IsStringShape(result.body)
        ELSE /\ IsStringShape(result.body)
             /\ ~IsObjectShape(result.body)
             /\ JSONparse(result.body).value.type = "string"

C3_Witness ==
    /\ pc = "done"
    /\ upstream[1] = "http503"
    /\ response.text = IpifyBody(sources[1])
    /\ IsStringShape(result.body)

\* C4 as stated: when the upstream always times out, the handler makes
\* exactly 1 + retries outbound attempts and then returns 200 with the
\* fixed failure string as its body.
C4_Original ==
    pc = "done" /\ AlwaysTimesOut =>
        /\ attempts = 1 + Retries
        /\ result.statusCode = 200
        /\ result.body = StringBody(FailString)

\* C4 as amended: when the upstream always times out, the handler makes
\* exactly one outbound attempt and then returns 200 with the message of the
\* thrown Error as its body; the fixed failure string is the body only when
\* what was thrown is not an Error.
C4_TimeoutOnce ==
    /\ pc = "done" /\ AlwaysTimesOut =>
          /\ attempts = 1
          /\ result.statusCode = 200
          /\ result.body = StringBody(FetchError("timeout").message)
          /\ result.body # StringBody(FailString)
    /\ pc = "done" /\ upstream[1] = "nonError" =>
          /\ attempts = 1
          /\ result.body = StringBody(FailString)

C4_Witness ==
    /\ pc = "done"
    /\ AlwaysTimesOut
    /\ attempts = 1
    /\ result.body = StringBody("fetch failed")

\* C5 as stated: after a transient failure the call is retried, up to 2
\* more times: an invocation makes at most 3 attempts, stops before the
\* third only when its last attempt did not fail transiently, and no retry
\* uses the address of the attempt before it.
C5_Original ==
    pc = "done" =>
        /\ attempts <= 1 + Retries
        /\ attempts < 1 + Retries => ~Transient(upstream[attempts])
        /\ \A i \in 1..(Len(sources) - 1) : sources[i] # sources[i + 1]

\* C5 as amended: a transient failure is not retried: every invocation
\* makes exactly one outbound attempt, from the address of the NAT gateway
\* of its subnet, and a transient failure of that attempt ends the
\* invocation with the failure's text as the result.
C5_NoRetry ==
    /\ attempts <= 1
    /\ Len(sources) = attempts
    /\ pc \in {"body", "return", "done"} =>
          /\ attempts = 1
          /\ sources[1] = NatGatewayEip(subnet.az)
    /\ pc \in {"return", "done"} /\ Transient(upstream[1]) =>
          json \in {Str("Service Unavailable"), Str("read ECONNRESET"),
                    Str("fetch failed")}

C5_Witness ==
    /\ pc = "done"
    /\ Transient(upstream[1])
    /\ upstream[2] = "ok"
    /\ attempts = 1
    /\ json.type = "string"

C10_EgressFromAllocated ==
    /\ \A i \in 1..Len(sources) :
          /\ sources[i] \in AllocatedAddresses
          /\ sources[i] \notin {AutoEip(az) : az \in AZs} \cup {NoAddress}
    /\ pc # "idle" => subnet.subnetType = "PRIVATE_WITH_EGRESS"
    /\ deployed =>
          \A s \in LambdaSubnets :
              /\ s.subnetType = "PRIVATE_WITH_EGRESS"
              /\ SourceAddress(s) \in AllocatedAddresses
    /\ pc = "done" /\ Succeeded => json = IpObject(NatGatewayEip(subnet.az))

C10_Witness ==
    /\ pc = "done"
    /\ subnet.az = 2
    /\ sources = <<EipAddress(eipAllocationIds[2])>>
    /\ json = IpObject(EipAddress(SplitComma(env)[2]))

\* The raw text of the body of the response the handler holds.
RawText == response.text[1]

MalformedBody == upstream[1] = "malformed"

\* C11 as stated: when the upstream answers 2xx with a body that is not
\* JSON, the result body carries the raw text of that body, not a
\* parse-error message and not the fixed failure string.
C11_Original ==
    pc = "done" /\ MalformedBody =>
        /\ json = Str(RawText)
        /\ result.body = StringBody(RawText)

\* C11 as amended: when the upstream answers 2xx with a body that is not
\* JSON, the handler still returns 200, and the result body is the JSON
\* encoding of the message of the SyntaxError that response.json() threw:
\* neither the raw text of the upstream body nor the fixed failure string.
C11_ParseErrorMessage ==
    pc = "done" /\ MalformedBody =>
        /\ ResponseOk(response)
        /\ ~JSONparse(response.text).ok
        /\ result.statusCode = 200
        /\ result.body = StringBody(SyntaxError.message)
        /\ result.body # StringBody(RawText)
        /\ result.body # StringBody(FailString)

C11_Witness ==
    /\ pc = "done"
    /\ MalformedBody
    /\ response.status = 200
    /\ response.text = <<"<html>">>
    /\ json = Str("Unexpected token")

\* C12: after any sequence of getIP() outcomes, the page's ip state is its
\* initial empty string or the ip string of an { ip } object the API
\* answered with; a bare failure string or a failed call never makes it a
\* value that is not a string; and getIP() never rejects.
C12_IpStaysString ==
    /\ ip.type = "string"
    /\ ip = Str("") \/ (pc = "done" /\ json = IpObject(ip.val))
    /\ fpc # "rejected"

====
